---------------------------- MODULE Spec2Model ----------------------------
(***************************************************************************)
(* Model of v25_datacleaner_rs: the per-file validation-and-repair loop of *)
(* main (src/bin.rs, duplicated in src/main.rs) and the helpers of         *)
(* src/lib.rs.  Text is modelled character by character: a string is a     *)
(* sequence of one-character strings, a file on disk is its byte sequence  *)
(* with "\n" line terminators.                                             *)
(***************************************************************************)
EXTENDS Integers, Sequences, FiniteSets, TLC

(***************************************************************************)
(* Bounds of the model.                                                    *)
(***************************************************************************)
\* number of runs of the program over the same directory
MaxRuns == 2
\* longest generic (non-OSC) file generated, in lines
MaxLines == 4
\* most data lines (from index 5 on) of a generated OSC file
MaxData == 3

(***************************************************************************)
(* Characters and strings.                                                 *)
(***************************************************************************)
Tab == "\t"
NL == "\n"
CR == "\r"
\* a byte sequence that is not valid UTF-8 (OsStr::to_str gives None)
BadByte == "<ff>"

Digit == {"0", "1", "2", "3", "4", "5", "6", "7", "8", "9"}
\* char::is_whitespace, restricted to the characters that occur
White == {" ", Tab, CR, NL}

Last(s) == s[Len(s)]
Front(s) == SubSeq(s, 1, Len(s) - 1)

RECURSIVE Concat(_)
Concat(ss) == IF ss = <<>> THEN <<>> ELSE Head(ss) \o Concat(Tail(ss))

\* str::split on a one-character pattern: "" gives [""], "a\t" gives ["a", ""]
RECURSIVE split(_, _)
split(s, d) ==
    IF \A i \in 1..Len(s) : s[i] # d
    THEN <<s>>
    ELSE LET k == CHOOSE i \in 1..Len(s) : s[i] = d /\ \A j \in 1..(i - 1) : s[j] # d
         IN  <<SubSeq(s, 1, k - 1)>> \o split(SubSeq(s, k + 1, Len(s)), d)

RECURSIVE trim_start(_)
trim_start(s) == IF s # <<>> /\ Head(s) \in White THEN trim_start(Tail(s)) ELSE s

RECURSIVE trim_end(_)
trim_end(s) == IF s # <<>> /\ Last(s) \in White THEN trim_end(Front(s)) ELSE s

\* str::trim
trim(s) == trim_end(trim_start(s))

\* str::contains
contains(s, pat) ==
    \E i \in 0..(Len(s) - Len(pat)) : SubSeq(s, i + 1, i + Len(pat)) = pat

\* the letters whose case the extensions of the model use
Lower == <<"a", "c", "d", "e", "n", "o", "s", "t", "x", "y", "z">>
Upper == <<"A", "C", "D", "E", "N", "O", "S", "T", "X", "Y", "Z">>

to_ascii_uppercase(s) ==
    [i \in 1..Len(s) |->
        IF \E k \in 1..Len(Lower) : Lower[k] = s[i]
        THEN Upper[CHOOSE k \in 1..Len(Lower) : Lower[k] = s[i]]
        ELSE s[i]]

(***************************************************************************)
(* src/lib.rs                                                              *)
(***************************************************************************)
\* n_data_fields: trim, split on the delimiter, count
n_data_fields(s, delimiter) == Len(split(trim(s), delimiter))

\* n_chars_last_field: trim, split, characters of the last field (always Some)
n_chars_last_field(s, delimiter) == Len(Last(split(trim(s), delimiter)))

\* BufRead::lines: each line ends at "\n"; the "\n" and a "\r" right before it
\* are stripped; an unterminated last line is kept as it is, if it is non-empty
read_lines(bytes) ==
    LET parts == split(bytes, NL)
        n     == Len(parts)
        strip(l) == IF l # <<>> /\ Last(l) = CR THEN Front(l) ELSE l
    IN  [i \in 1..(IF parts[n] = <<>> THEN n - 1 ELSE n) |->
            IF i < n THEN strip(parts[i]) ELSE parts[i]]

\* writeln!(file, "{}", line) for every line
write_lines(lines) == Concat([i \in 1..Len(lines) |-> lines[i] \o <<NL>>])


\* a file on disk: its bytes, when it exists
File(bytes) == [exists |-> TRUE, data |-> bytes]
Absent == [exists |-> FALSE, data |-> <<>>]

\* the I/O operation that fails during one loop iteration, if any
Faults == {"none", "read", "delete", "open", "write"}

\* lines_from_file: File::open and BufRead::lines; either can fail
lines_from_file(file, fault) == IF fault = "read" THEN "read" ELSE "none"

\* OpenOptions::new().write(true).truncate(true).open(): fails and leaves the
\* file alone, or truncates it; a failing writeln! then leaves it truncated
open_truncate(file, fault, bytes) ==
    IF fault = "open" THEN [err |-> "open", file |-> file]
    ELSE IF fault = "write" /\ bytes # <<>> THEN [err |-> "write", file |-> File(<<>>)]
    ELSE [err |-> "none", file |-> File(bytes)]

\* lines_to_file: every line of content, each followed by a newline
lines_to_file(file, content, fault) ==
    open_truncate(file, fault, write_lines(content))

\* content[from..to] is within bounds: from <= to and to <= content.len()
slice_ok(content, from, to) == from <= to /\ to <= Len(content)

\* content[i] is within bounds
index_ok(content, i) == i < Len(content)

\* the data lines write_osc writes: content[nl_head..content.len() - 1]
osc_data_lines(content, nl_head) == SubSeq(content, nl_head + 1, Len(content) - 1)

\* write_osc: the first nl_head lines as they are, then the data lines, each
\* written as "\t{data_prefix}{line}"
\* a slice whose bounds are out of range panics: content[0..nl_head] after the
\* file was truncated, content[nl_head..content.len() - 1] after the header
\* was written
write_osc(file, content, nl_head, data_prefix, fault) ==
    LET data == osc_data_lines(content, nl_head)
        head == write_lines(SubSeq(content, 1, nl_head))
    IN  IF fault = "open" THEN [err |-> "open", file |-> file, panic |-> FALSE]
        ELSE IF ~slice_ok(content, 0, nl_head)
        THEN [err |-> "none", file |-> File(<<>>), panic |-> TRUE]
        ELSE IF fault = "write" /\ nl_head > 0
        THEN [err |-> "write", file |-> File(<<>>), panic |-> FALSE]
        ELSE IF ~slice_ok(content, nl_head, Len(content) - 1)
        THEN [err |-> "none", file |-> File(head), panic |-> TRUE]
        ELSE LET w == open_truncate(file, fault,
                        head \o write_lines([i \in 1..Len(data) |->
                                                <<Tab>> \o data_prefix \o data[i]]))
             IN  [err |-> w.err, file |-> w.file, panic |-> FALSE]

\* fs::remove_file
remove_file(file, fault) ==
    IF fault = "delete" THEN [err |-> "delete", file |-> file]
    ELSE [err |-> "none", file |-> Absent]

(***************************************************************************)
(* src/bin.rs: constants, file names, configuration                        *)
(***************************************************************************)
CLEANUP_DONE ==
    <<"V", "2", "5", "L", "o", "g", "s", "_", "c", "l", "e", "a", "n", "e", "d",
      ".", "d", "o", "n", "e">>

\* r"\d{2}\.\d{2}\.\d{2} \d{2}:\d{2}:\d{2}\.\d{2}"; "\\d" stands for the class \d
RE_DT ==
    <<"\\d", "\\d", ".", "\\d", "\\d", ".", "\\d", "\\d", " ",
      "\\d", "\\d", ":", "\\d", "\\d", ":", "\\d", "\\d", ".", "\\d", "\\d">>

\* Regex::is_match: the pattern matches somewhere in s
is_match(re, s) ==
    \E i \in 0..(Len(s) - Len(re)) :
        \A k \in 1..Len(re) :
            IF re[k] = "\\d" THEN s[i + k] \in Digit ELSE s[i + k] = re[k]

DateTimeTok == <<"D", "a", "t", "e", "T", "i", "m", "e">>
OSC == <<"O", "S", "C">>

\* the files a directory of the model can hold
F_noext == <<"l", "o", "g">>
F_dot == <<"l", "o", "g", ".">>
F_osc == <<"a", ".", "o", "s", "c">>
F_txt == <<"b", ".", "T", "X", "T">>
F_dat == <<"c", ".", "d", "a", "t">>
F_xyz == <<"d", ".", "x", "y", "z">>
F_bad == <<"e", ".", BadByte>>
Files == {F_noext, F_dot, F_osc, F_txt, F_dat, F_xyz, F_bad, CLEANUP_DONE}

\* the min_n_lines the configuration file gives for OSC files (a sequence of
\* length <= 1): the file is read at the start and is not part of the source
VARIABLE osc_min_n_lines

\* the configuration: extension -> optional min_n_lines (a sequence of length <= 1)
cfg ==
    (OSC :> [min_n_lines |-> osc_min_n_lines])
    @@ (<<"T", "X", "T">> :> [min_n_lines |-> <<3>>])
    @@ (<<"D", "A", "T">> :> [min_n_lines |-> <<>>])

\* Path::extension: what follows the last ".", None without a "." and for ".name"
extension(path) ==
    LET dots == {i \in 1..Len(path) : path[i] = "."}
    IN  IF dots = {} THEN [some |-> FALSE, ext |-> <<>>]
        ELSE LET k == CHOOSE i \in dots : \A j \in dots : j <= i
             IN  IF k = 1 THEN [some |-> FALSE, ext |-> <<>>]
                 ELSE [some |-> TRUE, ext |-> SubSeq(path, k + 1, Len(path))]

\* OsStr::to_str is Some
is_utf8(s) == \A i \in 1..Len(s) : s[i] # BadByte

\* check #1: delete, skip, or clean the file as file_ext
check1(file_path, verbose) ==
    LET e  == extension(file_path)
        up == to_ascii_uppercase(e.ext)
    IN  IF ~e.some THEN [act |-> "delete", file_ext |-> <<>>]
        ELSE IF ~is_utf8(up) THEN [act |-> "skip", file_ext |-> <<>>]
        ELSE IF up = <<>> THEN [act |-> "delete", file_ext |-> <<>>]
        ELSE IF up \notin DOMAIN cfg
             THEN IF verbose THEN [act |-> "skip", file_ext |-> <<>>]
                  ELSE [act |-> "clean", file_ext |-> to_ascii_uppercase(<<>>)]
        ELSE [act |-> "clean", file_ext |-> to_ascii_uppercase(up)]

\* cfg[file_ext]["min_n_lines"].as_i64(), 2 when it is None
resolve_min_len(file_ext) ==
    IF file_ext \in DOMAIN cfg /\ cfg[file_ext].min_n_lines # <<>>
    THEN cfg[file_ext].min_n_lines[1]
    ELSE 2

(***************************************************************************)
(* src/bin.rs: checks #2 to #5 on the lines of one file                    *)
(***************************************************************************)
\* variant of check #2: "if" for "while", at most one line is popped
pop_empty_once(content) ==
    IF content # <<>> /\ Last(content) = <<>> THEN Front(content) ELSE content

\* check #2, the loop: pop while the last line is ""
RECURSIVE pop_empty(_)
pop_empty(content) ==
    IF content # <<>> /\ Last(content) = <<>> THEN pop_empty(Front(content)) ELSE content

\* check #2: content.len() < min_len
check2(content, min_len) == Len(content) < min_len

\* variant of check #3: ">" for "!="
check3_gt(content, min_len) ==
    n_data_fields(content[min_len], Tab) > n_data_fields(content[min_len - 1], Tab)

\* check #3: field counts of content[min_len - 2] and content[min_len - 1] differ
check3(content, min_len) ==
    n_data_fields(content[min_len], Tab) # n_data_fields(content[min_len - 1], Tab)

\* check #4.1: the last line's field count differs from the header's
check41(content, n_col_header) == n_data_fields(Last(content), Tab) # n_col_header

\* variant of check #4.2: "<=" for "<"
check42_le(content, min_len) ==
    /\ Len(content) > min_len
    /\ n_chars_last_field(Last(content), Tab)
         <= n_chars_last_field(content[Len(content) - 1], Tab)

\* variant of check #4.2: ">=" for ">" in the test of the line count
check42_ge(content, min_len) ==
    /\ Len(content) >= min_len
    /\ n_chars_last_field(Last(content), Tab)
         < n_chars_last_field(content[Len(content) - 1], Tab)

\* check #4.2: more than min_len lines and the last line's last field is
\* shorter than that of the line before
check42(content, min_len) ==
    /\ Len(content) > min_len
    /\ n_chars_last_field(Last(content), Tab)
         < n_chars_last_field(content[Len(content) - 1], Tab)

\* check #5: content.len() < min_len
check5(content, min_len) == Len(content) < min_len

\* checks #2 to #5 in the order of the loop body: whether the file is deleted,
\* the lines left, the write flag, and the checks that were evaluated
integrity(lines, min_len) ==
    LET c2 == pop_empty(lines)
        w2 == Len(c2) # Len(lines)
    IN  IF check2(c2, min_len)
        THEN [delete |-> TRUE, content |-> c2, write |-> w2, evaluated |-> <<"2">>]
        ELSE IF check3(c2, min_len)
        THEN [delete |-> TRUE, content |-> c2, write |-> w2, evaluated |-> <<"2", "3">>]
        ELSE LET n_col_header == n_data_fields(c2[min_len - 1], Tab)
                 p41 == check41(c2, n_col_header)
                 c41 == IF p41 THEN Front(c2) ELSE c2
                 p42 == check42(c41, min_len)
                 c42 == IF p42 THEN Front(c41) ELSE c41
             IN  [delete    |-> check5(c42, min_len),
                  content   |-> c42,
                  write     |-> w2 \/ p41 \/ p42,
                  evaluated |-> <<"2", "3", "4.1", "4.2", "5">>]

\* the condition of the OSC rewrite reads content[4] when the first line
\* matches RE_DT: it panics when the LineBuffer has no line 4
osc_index_panic(content) ==
    is_match(RE_DT, content[1]) /\ ~index_ok(content, 4)

\* variant of the condition of the OSC rewrite: without the test for "DateTime"
osc_rewrite_unguarded(content) == is_match(RE_DT, content[1])

\* the condition of the OSC rewrite: the first line matches RE_DT and
\* content[4] does not contain "DateTime"
osc_rewrite(content) ==
    is_match(RE_DT, content[1]) /\ ~contains(content[5], DateTimeTok)

\* variant of the header update: the marker without its leading tab
osc_header_notab(content) == [content EXCEPT ![5] = DateTimeTok \o @]

\* content[4] = "\tDateTime" + content[4]
osc_header(content) == [content EXCEPT ![5] = <<Tab>> \o DateTimeTok \o @]

NoResult == [delete |-> FALSE, content |-> <<>>, write |-> FALSE, evaluated |-> <<>>]

\* one iteration of the loop over entries, up to its file operations: what
\* check #1 says and, for a file that is read, what follows from its lines
decide(file_path, before, verbose) ==
    LET c1   == check1(file_path, verbose)
        base == [path |-> file_path, before |-> before, after |-> before,
                 act |-> c1.act, file_ext |-> c1.file_ext, ops |-> <<>>,
                 err |-> "none", lines |-> <<>>, min_len |-> 0,
                 res |-> NoResult, rewrite |-> FALSE, final |-> "none",
                 panic |-> FALSE]
    IN  IF c1.act # "clean" THEN base
        ELSE LET lines   == read_lines(before.data)
                 min_len == resolve_min_len(c1.file_ext)
                 res     == integrity(lines, min_len)
             IN  [base EXCEPT
                    !.lines = lines, !.min_len = min_len, !.res = res,
                    !.final = IF res.delete THEN "remove_file"
                              ELSE IF to_ascii_uppercase(c1.file_ext) = OSC
                              THEN IF osc_index_panic(res.content) THEN "panic"
                                   ELSE IF osc_rewrite(res.content) THEN "write_osc"
                                   ELSE "none"
                              ELSE IF res.write THEN "lines_to_file" ELSE "none"]

\* the iteration d with its file operations, of which the one named by fault
\* fails; panic: an index or a slice out of bounds ended the process
process(d, fault) ==
    LET del(r) == LET x == remove_file(d.before, fault)
                  IN  [r EXCEPT !.ops = Append(@, "delete"), !.err = x.err,
                                !.after = x.file]
        wr(r, w) == [r EXCEPT !.ops = Append(@, "write"), !.err = w.err,
                              !.after = w.file]
    IN  IF d.act = "delete" THEN del(d)
        ELSE IF d.act = "skip" THEN d
        ELSE IF lines_from_file(d.before, fault) # "none"
        THEN [d EXCEPT !.ops = <<"read">>, !.err = "read", !.lines = <<>>,
                       !.min_len = 0, !.res = NoResult, !.final = "none"]
        ELSE LET r == [d EXCEPT !.ops = <<"read">>]
             IN  IF d.final = "remove_file" THEN del(r)
                 ELSE IF d.final = "panic" THEN [r EXCEPT !.panic = TRUE]
                 ELSE IF d.final = "write_osc"
                 THEN LET w == write_osc(d.before, osc_header(d.res.content), 5,
                                         d.res.content[1], fault)
                      IN  [wr(r, w) EXCEPT !.rewrite = TRUE, !.panic = w.panic]
                 ELSE IF d.final = "lines_to_file"
                 THEN wr(r, lines_to_file(d.before, d.res.content, fault))
                 ELSE r

NoIteration ==
    [path |-> <<>>, before |-> Absent, after |-> Absent, act |-> "none",
     file_ext |-> <<>>, ops |-> <<>>, err |-> "none", lines |-> <<>>,
     min_len |-> 0, res |-> NoResult, rewrite |-> FALSE, final |-> "none",
     panic |-> FALSE]

(***************************************************************************)
(* State                                                                   *)
(***************************************************************************)
VARIABLES
    disk,       \* the directory: file name -> File(bytes) or Absent
    pc,         \* "idle", "running" (in the loop), "done" (Ok), "failed" (Err),
                \* "panicked" (the process ended in a panic)
    args,       \* the command line: [force, verbose]
    entries,    \* the files of the listing the loop has not reached yet
    runs,       \* number of runs started
    rec,        \* history: the last loop iteration
    run,        \* history: the current run
    oscOut      \* history: files whose bytes on disk were written by write_osc

vars == <<disk, pc, args, entries, runs, rec, run, oscOut, osc_min_n_lines>>

(***************************************************************************)
(* Directories the runs start from                                         *)
(***************************************************************************)
\* all sequences over S of length 0..n
RECURSIVE SeqsUpTo(_, _)
SeqsUpTo(S, n) ==
    IF n = 0 THEN {<<>>}
    ELSE LET shorter == SeqsUpTo(S, n - 1)
         IN  shorter \cup {Append(q, x) : q \in {t \in shorter : Len(t) = n - 1}, x \in S}

EmptyDir == [f \in Files |-> Absent]

\* lines of generic tab-delimited files
GenLines ==
    { <<"a", Tab, "b", "b", Tab>>,   \* two fields once trimmed
      <<"3", Tab, "4">>,             \* two fields, a shorter last field
      <<" ">>,                       \* blank but not empty: one field of no characters
      <<>> }                         \* empty

\* a directory holding one file of the extension without min_n_lines
GenDirs ==
    {[EmptyDir EXCEPT ![F_dat] = File(write_lines(ls))] : ls \in SeqsUpTo(GenLines, MaxLines)}

DT ==
    <<"2", "1", ".", "0", "6", ".", "2", "4", " ",
      "1", "4", ":", "0", "3", ":", "5", "5", ".", "1", "2">>

\* first lines of OSC files: a datetime, a datetime and more, no datetime
OscFirst == {DT, <<"#">> \o DT \o <<Tab, "Z">>, <<"O", "S", "C">>}
\* column headers of OSC files, at index 4
OscHead == {<<"T", Tab, "V">>, <<Tab, "T", Tab, "V">>}
\* data lines of OSC files
OscData == {<<"1", Tab, "2", "2">>, <<Tab, "1", Tab, "2">>, <<"3">>}

\* a directory holding one OSC file: first line, three more header lines, the
\* column header, data lines
OscDirs ==
    {[EmptyDir EXCEPT ![F_osc] =
        File(write_lines(<<first, <<"h", "1">>, <<"h", "2">>, <<"h", "3">>, head>> \o data))] :
            first \in OscFirst, head \in OscHead, data \in SeqsUpTo(OscData, MaxData)}

\* directories of several files; the last line of F_dat is unterminated and
\* F_txt has CR LF line ends and a blank last line
MixedDirs ==
    LET a == [EmptyDir EXCEPT
                ![F_noext] = File(<<"x", NL>>),
                ![F_dot]   = File(<<>>),
                ![F_xyz]   = File(<<"q", NL>>),
                ![F_bad]   = File(<<"x", NL>>)]
        b == [EmptyDir EXCEPT
                ![F_txt] = File(<<"t", CR, NL, "a", Tab, "b", CR, NL,
                                  "1", Tab, "2", CR, NL, CR, NL>>),
                ![F_dat] = File(<<"a", Tab, "b", NL, "1", Tab, "2">>),
                ![F_xyz] = File(<<"a", Tab, "b", NL, "1", Tab, "2", NL, "3", NL>>)]
    IN  {a, b, [b EXCEPT ![CLEANUP_DONE] = File(<<>>)]}

Directories == GenDirs \cup OscDirs \cup MixedDirs

\* force: args.force; marker: the marker existed at the start; start: the files
\* that existed at the start; listing: entries; visited: the files the loop
\* reached; touched: the files read, written or deleted; created: File::create
\* succeeded
NoRun == [force |-> FALSE, marker |-> FALSE, start |-> {}, listing |-> {},
          visited |-> {}, touched |-> {}, created |-> FALSE]

Init ==
    /\ disk \in Directories
    /\ pc = "idle"
    /\ args = [force |-> FALSE, verbose |-> FALSE]
    /\ entries = {}
    /\ runs = 0
    /\ rec = [it |-> NoIteration, was_osc_out |-> FALSE]
    /\ run = NoRun
    /\ oscOut = {}
    /\ osc_min_n_lines = <<6>>

(***************************************************************************)
(* main                                                                    *)
(***************************************************************************)
\* cleaned_identifier.is_file()
is_file(path) == disk[path].exists

\* variant of the run guard: "args.force" for "!args.force"
skip_run_inverted(force) == force /\ is_file(CLEANUP_DONE)

\* if !args.force { if cleaned_identifier.is_file() { ... return Ok(()) } }
skip_run(force) == ~force /\ is_file(CLEANUP_DONE)

\* the guard holds: "cleanup was already done", return Ok(())
AlreadyCleaned(force, verbose) ==
    /\ pc # "running"
    /\ runs < MaxRuns
    /\ skip_run(force)
    /\ runs' = runs + 1
    /\ args' = [force |-> force, verbose |-> verbose]
    /\ pc' = "done"
    /\ entries' = {}
    /\ run' = [NoRun EXCEPT !.force = force, !.marker = TRUE,
                            !.start = {f \in Files : disk[f].exists}]
    /\ UNCHANGED <<disk, rec, oscOut, osc_min_n_lines>>

\* otherwise: fs::read_dir lists the files of the directory
StartRun(force, verbose) ==
    /\ pc # "running"
    /\ runs < MaxRuns
    /\ ~skip_run(force)
    /\ runs' = runs + 1
    /\ args' = [force |-> force, verbose |-> verbose]
    /\ pc' = "running"
    /\ entries' = {f \in Files : disk[f].exists}
    /\ run' = [NoRun EXCEPT !.force = force, !.marker = is_file(CLEANUP_DONE),
                            !.start = {f \in Files : disk[f].exists},
                            !.listing = {f \in Files : disk[f].exists}]
    /\ UNCHANGED <<disk, rec, oscOut, osc_min_n_lines>>

\* variant of "?": the Err is dropped and the loop goes on
propagate_dropped(err) == "running"

\* the "?" on every file operation of the loop: an Err returns from main
propagate(err) == IF err = "none" THEN "running" ELSE "failed"

\* one iteration of "for file_path in entries.iter()"; an Err ends main, a
\* panic ends the process
ProcessFile(file_path) ==
    /\ pc = "running"
    /\ file_path \in entries
    /\ \E d \in {decide(file_path, disk[file_path], args.verbose)} :
           \E fault \in Faults :
             \E it \in {process(d, fault)} :
                 /\ disk' = [disk EXCEPT ![file_path] = it.after]
                 /\ rec' = [it |-> it, was_osc_out |-> file_path \in oscOut]
                 /\ pc' = IF it.panic THEN "panicked" ELSE propagate(it.err)
                 /\ run' = [run EXCEPT !.visited = @ \cup {file_path},
                                       !.touched =
                              IF it.ops = <<>> THEN @ ELSE @ \cup {file_path}]
                 /\ oscOut' = IF it.rewrite /\ it.err = "none" /\ ~it.panic
                              THEN oscOut \cup {file_path}
                              ELSE IF it.after # it.before THEN oscOut \ {file_path}
                              ELSE oscOut
    /\ entries' = entries \ {file_path}
    /\ UNCHANGED <<args, runs, osc_min_n_lines>>

\* after the loop: let _ = fs::File::create(cleaned_identifier); Ok(())
FinishRun(created) ==
    /\ pc = "running"
    /\ entries = {}
    /\ disk' = IF created THEN [disk EXCEPT ![CLEANUP_DONE] = File(<<>>)] ELSE disk
    /\ run' = [run EXCEPT !.created = created]
    /\ pc' = "done"
    /\ UNCHANGED <<args, entries, runs, rec, oscOut, osc_min_n_lines>>

Next ==
    \/ \E force \in BOOLEAN, verbose \in BOOLEAN : AlreadyCleaned(force, verbose)
    \/ \E force \in BOOLEAN, verbose \in BOOLEAN : StartRun(force, verbose)
    \/ \E file_path \in Files : ProcessFile(file_path)
    \/ \E created \in BOOLEAN : FinishRun(created)

Spec == Init /\ [][Next]_vars

(***************************************************************************)
(* The runs under other configurations of OSC files                        *)
(***************************************************************************)
\* a directory holding one OSC file of two to five lines of one field each
ShortOscDirs ==
    LET more == <<<<"h", "1">>, <<"h", "2">>, <<"h", "3">>, <<"h", "4">>>>
    IN  {[EmptyDir EXCEPT ![F_osc] = File(write_lines(<<first>> \o SubSeq(more, 1, k)))] :
            first \in OscFirst, k \in 1..4}

\* min_n_lines of OSC files: none (the default 2 applies), 3, 5, 6
OscMinNLines == {<<>>, <<3>>, <<5>>, <<6>>}

InitCfg ==
    /\ disk \in ShortOscDirs \cup OscDirs \cup MixedDirs
    /\ pc = "idle"
    /\ args = [force |-> FALSE, verbose |-> FALSE]
    /\ entries = {}
    /\ runs = 0
    /\ rec = [it |-> NoIteration, was_osc_out |-> FALSE]
    /\ run = NoRun
    /\ oscOut = {}
    /\ osc_min_n_lines \in OscMinNLines

SpecCfg == InitCfg /\ [][Next]_vars

(***************************************************************************)
(* Vocabulary of the properties, stated from the specification and         *)
(* computed without the operators of the code                              *)
(***************************************************************************)
Max(S) == CHOOSE x \in S : \A y \in S : y <= x
Min(S) == CHOOSE x \in S : \A y \in S : x <= y

\* number of tab characters of a line
TabCount(s) == Cardinality({i \in 1..Len(s) : s[i] = Tab})

\* a line without its surrounding whitespace
Stripped(s) ==
    LET ink == {i \in 1..Len(s) : s[i] \notin White}
    IN  IF ink = {} THEN <<>> ELSE SubSeq(s, Min(ink), Max(ink))

\* tab-delimited field count of a line, trimmed of surrounding whitespace
FieldCount(s) == TabCount(Stripped(s)) + 1

\* character count of the last field of the trimmed line
LastFieldLen(s) ==
    LET t    == Stripped(s)
        tabs == {i \in 1..Len(t) : t[i] = Tab}
    IN  IF tabs = {} THEN Len(t) ELSE Len(t) - Max(tabs)

\* the lines without their trailing exactly-empty lines
Trimmed(lines) ==
    LET full == {i \in 1..Len(lines) : lines[i] # <<>>}
    IN  IF full = {} THEN <<>> ELSE SubSeq(lines, 1, Max(full))

\* the last iteration read its file and ran the Line Integrity Pipeline
Cleaned == rec.it.act = "clean" /\ rec.it.ops # <<>> /\ rec.it.err # "read"

\* the outcome of the pipeline in the last iteration
Outcome ==
    IF rec.it.res.delete THEN "Delete"
    ELSE IF rec.it.res.write THEN "Rewritten"
    ELSE "Unchanged"

\* the last iteration performed the OSC rewrite, without I/O error
Rewrote == rec.it.rewrite /\ rec.it.err = "none" /\ ~rec.it.panic

\* the lines on disk after the last iteration, and the LineBuffer the
\* pipeline left
Out == read_lines(rec.it.after.data)
Buf == rec.it.res.content

(***************************************************************************)
(* Properties                                                              *)
(***************************************************************************)
\* C1: when the OSC rewrite is triggered, every data line of the LineBuffer,
\* from index 5 up to and including the last, is written with the datetime
\* prefix: the written file has as many lines as the LineBuffer.
C1_AllDataLinesWritten ==
    Rewrote =>
        /\ Len(Out) = Len(Buf)
        /\ \A i \in 6..Len(Buf) : Out[i] = <<Tab>> \o Buf[1] \o Buf[i]

\* C2: a file whose upper-cased extension is non-empty and not in the
\* configuration is left untouched by its iteration: no file operation is
\* performed on it and its bytes stay, verbose or not.
C2_UnknownUntouched ==
    LET e == extension(rec.it.path)
    IN  (e.some /\ e.ext # <<>> /\ to_ascii_uppercase(e.ext) \notin DOMAIN cfg) =>
            /\ rec.it.ops = <<>>
            /\ rec.it.after = rec.it.before

\* C3: for an OSC file that is not deleted and whose first line does not
\* match the datetime pattern, the lines on disk after the iteration are the
\* LineBuffer the pipeline produced.
C3_OscTrimmedPersisted ==
    (/\ Cleaned /\ rec.it.err = "none"
     /\ rec.it.file_ext = OSC
     /\ Outcome # "Delete"
     /\ ~is_match(RE_DT, Buf[1])) => Out = Buf

\* the case of C4: after trailing-blank trimming there are at least min_lines
\* lines, header and first data row agree, and of the lines from the header
\* on only the last has another field count than the header
OnlyLastDiffers ==
    /\ Cleaned
    /\ LET t == Trimmed(rec.it.lines)
           m == rec.it.min_len
       IN  /\ Len(t) >= m
           /\ FieldCount(t[m]) = FieldCount(t[m - 1])
           /\ FieldCount(t[Len(t)]) # FieldCount(t[m - 1])
           /\ \A i \in m..(Len(t) - 1) : FieldCount(t[i]) = FieldCount(t[m - 1])

\* C4 as claimed: when only the last line's field count differs from the
\* header's, the pipeline removes exactly one line and the outcome is
\* Rewritten.
C4_ExactlyOneLineRemoved ==
    OnlyLastDiffers =>
        /\ Outcome = "Rewritten"
        /\ Buf = Front(Trimmed(rec.it.lines))

\* C4 as amended: when only the last line's field count differs from the
\* header's, the outcome is Rewritten, never Delete; the pipeline removes the
\* last line, and one more line exactly when more than min_lines lines are
\* left and the new last line's last field is shorter than that of the line
\* before it.
C4_OneOrTwoLinesRemoved ==
    OnlyLastDiffers =>
        LET t   == Trimmed(rec.it.lines)
            n   == Len(t)
            two == /\ n - 1 > rec.it.min_len
                   /\ LastFieldLen(t[n - 1]) < LastFieldLen(t[n - 2])
        IN  /\ Outcome = "Rewritten"
            /\ Buf = SubSeq(t, 1, IF two THEN n - 2 ELSE n - 1)

\* only the last line's field count differed, and the file was rewritten
\* with one line less
C4_Witness ==
    /\ OnlyLastDiffers
    /\ rec.it.err = "none"
    /\ Out = Front(Trimmed(rec.it.lines))

\* C5: processing a file whose bytes are the result of an earlier OSC rewrite
\* is a no-op: no rewrite, no deletion, the bytes stay.
C5_SecondRunNoOp ==
    (rec.was_osc_out /\ rec.it.err = "none") =>
        /\ ~rec.it.rewrite
        /\ rec.it.after = rec.it.before

\* the case of C6: enough lines after trimming, and the field counts of the
\* header (index min_lines-2) and the first data row (index min_lines-1) differ
HeaderDataDiffer ==
    /\ Cleaned
    /\ LET t == Trimmed(rec.it.lines)
           m == rec.it.min_len
       IN  Len(t) >= m /\ FieldCount(t[m - 1]) # FieldCount(t[m])

\* C6: when header and first data row differ in field count, the outcome is
\* Delete: the only file operation after the read is the removal, nothing is
\* written, and the file is gone unless the removal itself fails.
C6_HeaderDataMismatchDeletes ==
    HeaderDataDiffer =>
        /\ Outcome = "Delete"
        /\ rec.it.ops = <<"read", "delete">>
        /\ rec.it.after = IF rec.it.err = "none" THEN Absent ELSE rec.it.before

\* a file longer than min_lines was deleted for its header/data mismatch
C6_Witness ==
    /\ HeaderDataDiffer
    /\ Len(Trimmed(rec.it.lines)) > rec.it.min_len
    /\ ~rec.it.after.exists

\* the case of C7: fewer than min_lines lines once the trailing empty lines
\* are removed
TooShort == Cleaned /\ Len(Trimmed(rec.it.lines)) < rec.it.min_len

\* C7: a file with fewer than min_lines lines after the trailing-blank trim is
\* deleted whatever its columns: the length check is the only check
\* evaluated, nothing is written, and the file is gone unless the removal
\* itself fails.
C7_ShortFileDeletes ==
    TooShort =>
        /\ Outcome = "Delete"
        /\ rec.it.res.evaluated = <<"2">>
        /\ rec.it.ops = <<"read", "delete">>
        /\ rec.it.after = IF rec.it.err = "none" THEN Absent ELSE rec.it.before

\* a file that was long enough before the trim, short after it, was deleted
C7_Witness ==
    /\ TooShort
    /\ Len(rec.it.lines) >= rec.it.min_len
    /\ ~rec.it.after.exists

\* C8, states: a run without force that found the marker is done at once and
\* reached and touched no file; any other run that is done reached every file
\* that existed at its start, and the marker exists after it when its
\* creation did not fail.
C8_State ==
    /\ (pc # "idle" /\ ~run.force /\ run.marker) =>
            /\ pc = "done"
            /\ run.visited = {} /\ run.touched = {}
            /\ is_file(CLEANUP_DONE)
    /\ (pc = "done" /\ (run.force \/ ~run.marker)) =>
            /\ run.visited = run.start
            /\ run.created => is_file(CLEANUP_DONE)

\* C8, steps: the start of a run without force while the marker exists
\* changes no file and ends the run with Ok.
C8_Step ==
    (runs' = runs + 1 /\ ~args'.force /\ is_file(CLEANUP_DONE)) =>
        (disk' = disk /\ pc' = "done")

C9_State ==
    /\ (rec.it.err # "none" /\ rec.it.path \in run.visited) => pc = "failed"
    /\ pc = "failed" =>
            /\ rec.it.err # "none" /\ rec.it.path \in run.visited
            /\ rec.it.ops # <<>>
            /\ Last(rec.it.ops) =
                    (IF rec.it.err \in {"open", "write"} THEN "write" ELSE rec.it.err)
            /\ entries \cap (run.visited \cup run.touched) = {}
            /\ run.visited \cup entries = run.listing
            /\ ~run.created

\* C9, steps: nothing on disk changes after the failure; the only step left is
\* the start of another run.
C9_Step == pc = "failed" => (disk' = disk /\ runs' = runs + 1)

\* C9: an I/O failure aborts the run at that file.
C9_AbortOnIoError == []C9_State /\ [][C9_Step]_vars

\* a removal failed while other files of the listing were still to come
C9_Witness == pc = "failed" /\ rec.it.err = "delete" /\ entries # {}

RewriteDue ==
    /\ rec.it.file_ext = OSC
    /\ Len(Buf) >= 5
    /\ is_match(RE_DT, Buf[1])
    /\ ~contains(Buf[5], DateTimeTok)

\* C11 as claimed: a file whose pipeline outcome is Unchanged has, after its
\* iteration, the lines it had before, and no write to it occurs.
C11_UnchangedRoundTrip ==
    (Cleaned /\ rec.it.err = "none" /\ Outcome = "Unchanged") =>
        /\ "write" \notin {rec.it.ops[i] : i \in 1..Len(rec.it.ops)}
        /\ Out = rec.it.lines

\* C11 as amended: a file whose pipeline outcome is Unchanged and for which
\* the OSC rewrite is not due is only read: no line was removed, no write and
\* no removal occurs, and its bytes on disk are those from before.
C11_UnchangedNotRewritten ==
    (Cleaned /\ Outcome = "Unchanged" /\ ~RewriteDue) =>
        /\ Buf = rec.it.lines
        /\ rec.it.ops = <<"read">>
        /\ rec.it.err = "none"
        /\ rec.it.after = rec.it.before
        /\ disk[rec.it.path] = rec.it.before

\* an OSC file that the rewrite had written before comes out Unchanged
C11_Witness ==
    /\ Cleaned /\ Outcome = "Unchanged" /\ ~RewriteDue
    /\ rec.it.file_ext = OSC /\ rec.was_osc_out
    /\ is_match(RE_DT, Buf[1])

\* the last iteration passed the pre-check (step 2) and the header/data
\* column match (step 3), for a minimum line count of at least 2
PassedSteps23 ==
    /\ Cleaned
    /\ rec.it.min_len >= 2
    /\ Len(Trimmed(rec.it.lines)) >= rec.it.min_len
    /\ FieldCount(rec.it.lines[rec.it.min_len - 1])
         = FieldCount(rec.it.lines[rec.it.min_len])

C13_ReadsInBounds ==
    (Cleaned /\ rec.it.min_len >= 2) => (~rec.it.panic /\ pc # "panicked")

\* the read of line 4 is out of bounds: the file is left as it was
C13_IndexPanic ==
    /\ Cleaned /\ rec.it.final = "panic" /\ pc = "panicked"
    /\ Len(Buf) < 5 /\ rec.it.after = rec.it.before

\* the data slice 5..len-1 is out of bounds: the header is already written
C13_SlicePanic ==
    /\ Cleaned /\ rec.it.final = "write_osc" /\ pc = "panicked"
    /\ Len(Buf) = 5 /\ Len(Out) = 5
=============================================================================
